---- MODULE Spec2Model ----
(***************************************************************************)
(* Rule core of the judicial-auction platform: auction lifecycle, bid      *)
(* acceptance and deposit review, with the owner-or-admin gate of the      *)
(* routers.  Every action is one HTTP handler (router function plus the    *)
(* crud function it calls); amounts and dates are small integers.          *)
(***************************************************************************)
EXTENDS Integers, Sequences, FiniteSets, TLC

\* ---------------------------------------------------------------- bounds
MaxTime == 3
MaxDeposits == 2
MaxBids == 3

\* ------------------------------------------------------- input domains
AuctionIds == {1}
Users == {"u1", "u2", "adm"}
Creators == {"u1"}
Bidders == {"u2"}
Procs == {"p1", "p2"}

NULL == "null"
NullNum == -1

Statuses == {"draft", "scheduled", "active", "closed", "cancelled", "sold"}
BadStatus == "bogus"
Amounts == {0, 90, 100, 105, 110}
CreatePrices == {0, 100}
CreateIncrements == {10}
CreateDates == {<<1, 2>>, <<2, 1>>, <<1, 1>>}
CreateStatuses == {"draft", "active"}
CreateCreatorIds == {NULL, "u2"}
DepositStatuses == {"pending", "confirmed", "rejected"}
Messages == {NULL, "", "receipt illegible"}

\* ------------------------------------------------------------- state
VARIABLES auctions, specifications, bids, deposits, lastAuctionId, now, resp, req, users, details,
          images, accounts

vars == <<auctions, specifications, bids, deposits, lastAuctionId, now, resp, req, users, details,
         images, accounts>>

db == <<auctions, specifications, bids, deposits, lastAuctionId, images>>

\* ------------------------------------------------------------- users
UserRole(u) == IF u = "adm" THEN "admin" ELSE "encherisseur"

\* attributes of a User object
UserColumns == {"id", "email", "hashed_password", "first_name", "last_name", "role",
                "is_active", "is_verified", "is_blocked", "verification_token",
                "phone_number", "address", "ville_etranger", "registre_commerce",
                "denomination_societe", "cin", "tribunal_id", "pays_id", "ville_id",
                "organism_credit_id", "tribunal", "pays", "ville", "organism_credit",
                "created_at", "updated_at", "last_login"}

is_admin_user(u) == UserRole(u) \in {"admin", "superadmin"}

\* the flags of a user row; an account that registered and followed its
\* verification link is active, verified, not blocked and has no token left
Verified == [is_active |-> TRUE, is_verified |-> TRUE, is_blocked |-> FALSE,
             verification_token |-> FALSE]

\* ----------------------------------------------------------- accounts
\* the users table by email; hashed_password is named by the password it was
\* made from; verification_token is "none" for a null column, "secret" for a
\* token only the table holds, "mailed" for one the holder of the address has
SUPERADMIN_EMAIL == "superadmin@example.com"
ADMIN_EMAIL == "admin@example.com"
Emails == {SUPERADMIN_EMAIL, ADMIN_EMAIL, "user@example.com"}
UserRoles == {"superadmin", "admin", "tribunal", "tribunalmanager", "orgacredit", "encherisseur"}

create_user(accts, email, role, password, send_verification, is_active, is_verified) ==
    [e \in DOMAIN accts \cup {email} |->
        IF e = email
        THEN [role |-> role, hashed_password |-> password, is_active |-> is_active,
              is_verified |-> is_verified, is_blocked |-> FALSE,
              verification_token |-> IF send_verification THEN "secret" ELSE "none"]
        ELSE accts[e]]

\* variant that writes the configured rows whether or not they exist
create_initial_admin_users_resetting(accts) ==
    create_user(create_user(accts, SUPERADMIN_EMAIL, "superadmin", "configured", FALSE, TRUE, TRUE),
                ADMIN_EMAIL, "admin", "configured", FALSE, TRUE, TRUE)

\* main.create_initial_admin_users, run by the startup event
create_initial_admin_users(accts) ==
    LET first == IF SUPERADMIN_EMAIL \in DOMAIN accts THEN accts
                 ELSE create_user(accts, SUPERADMIN_EMAIL, "superadmin", "configured",
                                  FALSE, TRUE, TRUE) IN
    IF ADMIN_EMAIL \in DOMAIN first THEN first
    ELSE create_user(first, ADMIN_EMAIL, "admin", "configured", FALSE, TRUE, TRUE)

\* ---------------------------------------------------------- responses
Response(op, a, err, min) == [op |-> op, auction |-> a, err |-> err, min |-> min]

\* a get_auction_with_details call between its queries
NoDetails == [pc |-> "idle", auctionId |-> 0, highestBid |-> NullNum, totalBids |-> 0]

Idle == [pc |-> "idle", user |-> "", auctionId |-> 0, amount |-> 0,
         startingPrice |-> 0, incrementAmount |-> 0]

\* -------------------------------------------------------- create auction
AuctionBaseValid(sp, inc, sd, ed) == sp > 0 /\ inc > 0 /\ ~(ed < sd)

\* cid and st are the creator_id and auctionStatus of the request body; the
\* router replaces creator_id by the caller and passes the rest to the crud
create_auction(u, cid, sp, inc, sd, ed, st) ==
    /\ lastAuctionId + 1 \in AuctionIds
    /\ IF ~AuctionBaseValid(sp, inc, sd, ed)
       THEN /\ resp' = Response("create", 0, "ValidationError", 0)
            /\ UNCHANGED <<auctions, lastAuctionId>>
       ELSE /\ lastAuctionId' = lastAuctionId + 1
            /\ auctions' = [i \in DOMAIN auctions \cup {lastAuctionId + 1} |->
                              IF i = lastAuctionId + 1
                              THEN [[creator_id |-> cid, startingPrice |-> sp, reservePrice |-> NullNum,
                                    incrementAmount |-> inc, startDate |-> sd, endDate |-> ed,
                                    auctionType |-> "normal", auctionStatus |-> st]
                                       EXCEPT !.creator_id = u]
                              ELSE auctions[i]]
            /\ resp' = Response("create", lastAuctionId + 1, "ok", 0)
    /\ UNCHANGED <<specifications, bids, deposits, now, req, users, details, images, accounts>>

\* ------------------------------------------------------ status transitions
valid_transitions_skip(s) ==
    CASE s = "draft" -> {"scheduled", "active", "cancelled"}
      [] s = "scheduled" -> {"active", "cancelled"}
      [] s = "active" -> {"closed", "cancelled"}
      [] s = "closed" -> {"sold"}
      [] s = "cancelled" -> {}
      [] s = "sold" -> {}

valid_transitions(s) ==
    CASE s = "draft" -> {"scheduled", "cancelled"}
      [] s = "scheduled" -> {"active", "cancelled"}
      [] s = "active" -> {"closed", "cancelled"}
      [] s = "closed" -> {"sold"}
      [] s = "cancelled" -> {}
      [] s = "sold" -> {}

\* variant that assigns the new status before it looks at the table
update_auction_status_writing_first(u, a, t) ==
    /\ IF t \notin Statuses
       THEN /\ resp' = Response("updateStatus", a, "ValidationError", 0)
            /\ UNCHANGED auctions
       ELSE IF a \notin DOMAIN auctions
       THEN /\ resp' = Response("updateStatus", a, "NotFound", 0)
            /\ UNCHANGED auctions
       ELSE IF auctions[a].creator_id # u /\ ~is_admin_user(u)
       THEN /\ resp' = Response("updateStatus", a, "Forbidden", 0)
            /\ UNCHANGED auctions
       ELSE /\ auctions' = [auctions EXCEPT ![a].auctionStatus = t]
            /\ resp' = Response("updateStatus", a,
                                IF t \in valid_transitions(auctions[a].auctionStatus)
                                THEN "ok" ELSE "InvalidTransition", 0)
    /\ UNCHANGED <<specifications, bids, deposits, lastAuctionId, now, req, users, details, images, accounts>>

update_auction_status(u, a, t) ==
    /\ IF t \notin Statuses
       THEN /\ resp' = Response("updateStatus", a, "ValidationError", 0)
            /\ UNCHANGED auctions
       ELSE IF a \notin DOMAIN auctions
       THEN /\ resp' = Response("updateStatus", a, "NotFound", 0)
            /\ UNCHANGED auctions
       ELSE IF auctions[a].creator_id # u /\ ~is_admin_user(u)
       THEN /\ resp' = Response("updateStatus", a, "Forbidden", 0)
            /\ UNCHANGED auctions
       ELSE IF t \notin valid_transitions(auctions[a].auctionStatus)
       THEN /\ resp' = Response("updateStatus", a, "InvalidTransition", 0)
            /\ UNCHANGED auctions
       ELSE /\ auctions' = [auctions EXCEPT ![a].auctionStatus = t]
            /\ resp' = Response("updateStatus", a, "ok", 0)
    /\ UNCHANGED <<specifications, bids, deposits, lastAuctionId, now, req, users, details, images, accounts>>

\* ------------------------------------------------------- update auction
UpdateFields == {"startingPrice", "reservePrice", "incrementAmount", "startDate",
                 "endDate", "auctionType", "auctionStatus"}

NotNullFields == {"startingPrice", "incrementAmount", "startDate", "endDate",
                  "auctionType", "auctionStatus"}

SpecLists == {<<>>, <<[property |-> "color", value |-> "red"]>>}

\* a field of the request body: not sent, sent as null, or sent with a value
Absent(d) == [k |-> "absent", v |-> d]
Null(d) == [k |-> "null", v |-> d]
Val(x) == [k |-> "value", v |-> x]

AllPayloads ==
    [startingPrice : {Absent(0), Null(0), Val(0), Val(105)},
     reservePrice : {Absent(0), Null(0), Val(150)},
     incrementAmount : {Absent(0), Val(5)},
     startDate : {Absent(0), Val(1), Val(2)},
     endDate : {Absent(0), Val(0), Val(1), Val(2)},
     auctionType : {Absent("")},
     auctionStatus : {Absent(""), Val("active")},
     specifications : {Absent(<<>>), Null(<<>>)} \cup {Val(l) : l \in SpecLists}]

EmptyPayload ==
    [startingPrice |-> Absent(0), reservePrice |-> Absent(0), incrementAmount |-> Absent(0),
     startDate |-> Absent(0), endDate |-> Absent(0), auctionType |-> Absent(""),
     auctionStatus |-> Absent(""), specifications |-> Absent(<<>>)]

Present(p) == {f \in DOMAIN p : p[f].k # "absent"}

Payloads ==
    {p \in AllPayloads :
        \/ Cardinality(Present(p)) = 1 /\ p.startDate.k = "absent" /\ p.endDate.v # 1
        \/ Present(p) = {"startDate", "endDate"} /\ p.endDate.v # 0}

\* the date check of the router, made on the raw request body
RouterDatesValid(p) ==
    (p.startDate.k = "value" /\ p.endDate.k = "value") => ~(p.endDate.v <= p.startDate.v)

\* field constraints and the endDate validator of the AuctionUpdate schema
AuctionUpdateValid(p) ==
    /\ p.startingPrice.k = "value" => p.startingPrice.v > 0
    /\ p.reservePrice.k = "value" => p.reservePrice.v > 0
    /\ p.incrementAmount.k = "value" => p.incrementAmount.v > 0
    /\ p.auctionStatus.k = "value" => p.auctionStatus.v \in Statuses
    /\ (p.endDate.k = "value" /\ p.startDate.k = "value") => ~(p.endDate.v < p.startDate.v)

ApplyUpdate_nulling_absent(rec, p) ==
    [f \in DOMAIN rec |->
        IF f \in UpdateFields
        THEN IF p[f].k # "value" THEN NullNum ELSE p[f].v
        ELSE rec[f]]

\* model_dump(exclude_unset=True) without the specifications key, applied by setattr
ApplyUpdate(rec, p) ==
    [f \in DOMAIN rec |->
        IF f \in UpdateFields /\ p[f].k # "absent"
        THEN IF p[f].k = "null" THEN NullNum ELSE p[f].v
        ELSE rec[f]]

ReplaceSpecifications_merging(a, lst) ==
    specifications
        \o [i \in 1..Len(lst) |-> [auctionId |-> a, property |-> lst[i].property,
                                   value |-> lst[i].value]]

\* lines 118-130 of crud/auction.py: delete every row of the auction, then add
\* one row per submitted item from its keys property and value
ReplaceSpecifications(a, lst) ==
    SelectSeq(specifications, LAMBDA s : s.auctionId # a)
        \o [i \in 1..Len(lst) |-> [auctionId |-> a, property |-> lst[i].property,
                                   value |-> lst[i].value]]

\* the columns property and value are NOT NULL: an item without one of the
\* keys makes the commit fail
SpecificationRowsValid(lst) ==
    \A i \in 1..Len(lst) : lst[i].property # NULL /\ lst[i].value # NULL

\* request bodies with any combination of fields
RichSpecLists ==
    {<<>>,
     <<[property |-> "color", value |-> "red"]>>,
     <<[property |-> "size", value |-> "L"], [property |-> "color", value |-> "blue"]>>,
     <<[property |-> NULL, value |-> "red"]>>}

RichPayloads ==
    [startingPrice : {Absent(0), Null(0), Val(105)},
     reservePrice : {Absent(0), Null(0), Val(150)},
     incrementAmount : {Absent(0), Val(5)},
     startDate : {Absent(0)},
     endDate : {Absent(0), Val(3)},
     auctionType : {Absent("")},
     auctionStatus : {Absent("")},
     specifications : {Absent(<<>>), Null(<<>>)} \cup {Val(l) : l \in RichSpecLists}]

editable_statuses_with_cancelled == {"draft", "scheduled", "cancelled"}

\* the statuses in which crud.update_auction accepts a change
editable_statuses == {"draft", "scheduled"}

\* outcome of crud.update_auction as the router reports it: every HTTPException
\* raised inside the try block of the router is re-raised as a 500
update_auction(u, a, wellformed, p) ==
    /\ IF a \notin DOMAIN auctions
       THEN /\ resp' = Response("update", a, "NotFound", 0)
            /\ UNCHANGED <<auctions, specifications>>
       ELSE IF auctions[a].creator_id # u /\ ~is_admin_user(u)
       THEN /\ resp' = Response("update", a, "Forbidden", 0)
            /\ UNCHANGED <<auctions, specifications>>
       ELSE IF ~wellformed
       THEN /\ resp' = Response("update", a, "ValidationError", 0)
            /\ UNCHANGED <<auctions, specifications>>
       ELSE IF ~RouterDatesValid(p) \/ ~AuctionUpdateValid(p)
       THEN /\ resp' = Response("update", a, "ValidationError", 0)
            /\ UNCHANGED <<auctions, specifications>>
       ELSE IF auctions[a].auctionStatus \notin editable_statuses
       THEN /\ resp' = Response("update", a, "Internal", 0)
            /\ UNCHANGED <<auctions, specifications>>
       ELSE IF \E f \in NotNullFields : p[f].k = "null"
       THEN /\ resp' = Response("update", a, "Internal", 0)
            /\ UNCHANGED <<auctions, specifications>>
       ELSE IF p.specifications.k = "value" /\ ~SpecificationRowsValid(p.specifications.v)
       THEN /\ resp' = Response("update", a, "Internal", 0)
            /\ UNCHANGED <<auctions, specifications>>
       ELSE /\ auctions' = [auctions EXCEPT ![a] = ApplyUpdate(@, p)]
            /\ specifications' = IF p.specifications.k # "value"
                                 THEN specifications
                                 ELSE ReplaceSpecifications(a, p.specifications.v)
            /\ resp' = Response("update", a, "ok", 0)
    /\ UNCHANGED <<bids, deposits, lastAuctionId, now, req, users, details, images, accounts>>

\* the same handler as two database round trips of one request: the auction
\* query of get_auction with the tests made on its result, then the UPDATE
\* of the columns that setattr changed and the commit
UpdateLoad(p, u, a, pl) ==
    /\ req[p].pc = "idle"
    /\ IF a \notin DOMAIN auctions
       THEN resp' = Response("update", a, "NotFound", 0) /\ UNCHANGED req
       ELSE IF auctions[a].creator_id # u /\ ~is_admin_user(u)
       THEN resp' = Response("update", a, "Forbidden", 0) /\ UNCHANGED req
       ELSE IF ~RouterDatesValid(pl) \/ ~AuctionUpdateValid(pl)
       THEN resp' = Response("update", a, "ValidationError", 0) /\ UNCHANGED req
       ELSE IF auctions[a].auctionStatus \notin editable_statuses
       THEN resp' = Response("update", a, "Internal", 0) /\ UNCHANGED req
       ELSE /\ req' = [req EXCEPT ![p] = [pc |-> "update", user |-> u, auctionId |-> a,
                                          payload |-> pl]]
            /\ UNCHANGED resp
    /\ UNCHANGED <<auctions, specifications, bids, deposits, lastAuctionId, now, users, details, images, accounts>>

UpdateCommit(p) ==
    /\ req[p].pc = "update"
    /\ LET a == req[p].auctionId
           pl == req[p].payload IN
       IF a \notin DOMAIN auctions \/ \E f \in NotNullFields : pl[f].k = "null"
       THEN \* the UPDATE matches no row, or writes NULL to a NOT NULL column
            /\ resp' = Response("update", a, "Internal", 0)
            /\ UNCHANGED <<auctions, specifications>>
       ELSE /\ auctions' = [auctions EXCEPT ![a] = ApplyUpdate(@, pl)]
            /\ specifications' = IF pl.specifications.k # "value"
                                 THEN specifications
                                 ELSE ReplaceSpecifications(a, pl.specifications.v)
            /\ resp' = Response("update", a, "ok", 0)
    /\ req' = [req EXCEPT ![p] = Idle]
    /\ UNCHANGED <<bids, deposits, lastAuctionId, now, users, details, images, accounts>>

\* ------------------------------------------------------ specifications
\* attributes of the AuctionSpecification model and fields of its create schema
SpecificationColumns == {"id", "auctionId", "property", "value", "auction"}
SpecificationSchemaFields == {"auctionId", "property", "value"}

\* the test "auction.creator_id != current_user.id and not current_user.is_admin"
\* of the specification, document and image routers: the right operand is
\* evaluated for every caller who is not the creator
subresource_gate(u, a) ==
    IF auctions[a].creator_id = u THEN "pass"
    ELSE IF "is_admin" \notin UserColumns THEN "Internal"
    ELSE IF is_admin_user(u) THEN "pass"
    ELSE "Forbidden"

SpecificationResult(op, a, err) ==
    /\ resp' = Response(op, a, err, 0)
    /\ UNCHANGED specifications

\* POST /auction-specifications/{auction_id} with crud.create_specification
create_specification(u, a, prop, val) ==
    /\ IF a \notin DOMAIN auctions THEN SpecificationResult("specCreate", a, "NotFound")
       ELSE IF subresource_gate(u, a) # "pass"
       THEN SpecificationResult("specCreate", a, subresource_gate(u, a))
       ELSE IF auctions[a].auctionStatus \notin editable_statuses
       THEN SpecificationResult("specCreate", a, "InvalidState")
       ELSE IF "name" \notin SpecificationColumns
       THEN \* AuctionSpecification.name in the duplicate query
            SpecificationResult("specCreate", a, "Internal")
       ELSE IF \E i \in 1..Len(specifications) :
                  specifications[i].auctionId = a /\ specifications[i].property = prop
       THEN SpecificationResult("specCreate", a, "InvalidState")
       ELSE /\ specifications' = Append(specifications,
                                        [auctionId |-> a, property |-> prop, value |-> val])
            /\ resp' = Response("specCreate", a, "ok", 0)
    /\ UNCHANGED <<auctions, bids, deposits, lastAuctionId, now, req, users, details, images, accounts>>

\* POST /auction-specifications/bulk/{auction_id} with crud.create_bulk_specifications
create_bulk_specifications(u, a, lst) ==
    /\ IF a \notin DOMAIN auctions THEN SpecificationResult("specBulk", a, "NotFound")
       ELSE IF subresource_gate(u, a) # "pass"
       THEN SpecificationResult("specBulk", a, subresource_gate(u, a))
       ELSE IF auctions[a].auctionStatus \notin editable_statuses
       THEN SpecificationResult("specBulk", a, "InvalidState")
       ELSE IF lst # <<>> /\ "name" \notin SpecificationSchemaFields
       THEN \* spec.name for the first item of the list
            SpecificationResult("specBulk", a, "Internal")
       ELSE IF /\ \E j \in 1..Len(specifications) : specifications[j].auctionId = a
               /\ "name" \notin SpecificationColumns
       THEN \* spec.name for the first stored row of the auction
            SpecificationResult("specBulk", a, "Internal")
       ELSE IF \/ \E i, j \in 1..Len(lst) : i # j /\ lst[i].property = lst[j].property
               \/ \E i \in 1..Len(lst), j \in 1..Len(specifications) :
                     specifications[j].auctionId = a /\ specifications[j].property = lst[i].property
       THEN SpecificationResult("specBulk", a, "InvalidState")
       ELSE /\ specifications' = specifications
                  \o [i \in 1..Len(lst) |-> [auctionId |-> a, property |-> lst[i].property,
                                             value |-> lst[i].value]]
            /\ resp' = Response("specBulk", a, "ok", 0)
    /\ UNCHANGED <<auctions, bids, deposits, lastAuctionId, now, req, users, details, images, accounts>>

\* PUT /auction-specifications/{spec_id} with crud.update_specification; the
\* row is named by its position i, p is the AuctionSpecificationUpdate body
update_specification(u, i, p) ==
    /\ IF i \notin 1..Len(specifications) THEN SpecificationResult("specUpdate", 0, "NotFound")
       ELSE LET a == specifications[i].auctionId IN
            IF subresource_gate(u, a) # "pass"
            THEN SpecificationResult("specUpdate", a, subresource_gate(u, a))
            ELSE IF auctions[a].auctionStatus \notin editable_statuses
            THEN SpecificationResult("specUpdate", a, "InvalidState")
            ELSE IF /\ "name" \in DOMAIN p
                    /\ \E j \in 1..Len(specifications) :
                          /\ j # i /\ specifications[j].auctionId = a
                          /\ p.property.k = "value"
                          /\ specifications[j].property = p.property.v
            THEN SpecificationResult("specUpdate", a, "InvalidState")
            ELSE /\ specifications' =
                       [specifications EXCEPT ![i] =
                           [f \in DOMAIN @ |->
                               IF f \in DOMAIN p /\ p[f].k = "value" THEN p[f].v ELSE @[f]]]
                 /\ resp' = Response("specUpdate", a, "ok", 0)
    /\ UNCHANGED <<auctions, bids, deposits, lastAuctionId, now, req, users, details, images, accounts>>

\* DELETE /auction-specifications/{spec_id} with crud.delete_specification
delete_specification(u, i) ==
    /\ IF i \notin 1..Len(specifications) THEN SpecificationResult("specDelete", 0, "NotFound")
       ELSE LET a == specifications[i].auctionId IN
            IF subresource_gate(u, a) # "pass"
            THEN SpecificationResult("specDelete", a, subresource_gate(u, a))
            ELSE IF auctions[a].auctionStatus \notin editable_statuses
            THEN SpecificationResult("specDelete", a, "InvalidState")
            ELSE /\ specifications' = [j \in 1..(Len(specifications) - 1) |->
                                          IF j < i THEN specifications[j]
                                          ELSE specifications[j + 1]]
                 /\ resp' = Response("specDelete", a, "ok", 0)
    /\ UNCHANGED <<auctions, bids, deposits, lastAuctionId, now, req, users, details, images, accounts>>

\* --------------------------------------------------------------- images
\* attributes of the AuctionImage model
ImageColumns == {"id", "auctionId", "imageUrl", "caption", "isMain", "order", "auction"}

ImagesOf(imgs, a) == {i \in 1..Len(imgs) : imgs[i].auctionId = a}

MainImagesOf(imgs, a) == {i \in ImagesOf(imgs, a) : imgs[i].isMain = TRUE}

\* the bulk UPDATE ... SET isMain = False on the main images of an auction
update_main_image(imgs, a) ==
    [i \in 1..Len(imgs) |->
        IF imgs[i].auctionId = a /\ imgs[i].isMain = TRUE
        THEN [imgs[i] EXCEPT !.isMain = FALSE] ELSE imgs[i]]

\* variant of crud.create_image that does not clear the other main images
create_image_keeping_main(imgs, a, isMain) ==
    Append(imgs, [auctionId |-> a, isMain |-> isMain,
                  order |-> Cardinality(ImagesOf(imgs, a)) + 1])

\* crud.create_image once its two tests have passed; the routers never fill
\* the schema field order, so the sequential order is assigned
create_image(imgs, a, isMain) ==
    Append(IF isMain THEN update_main_image(imgs, a) ELSE imgs,
           [auctionId |-> a, isMain |-> isMain,
            order |-> Cardinality(ImagesOf(imgs, a)) + 1])

\* the two tests of crud.create_image
create_image_guard(a) ==
    IF a \notin DOMAIN auctions THEN "NotFound"
    ELSE IF auctions[a].auctionStatus \notin editable_statuses THEN "InvalidState"
    ELSE "pass"

\* n calls of crud.create_image in one request, the first with isMain = first
create_images(imgs, a, n, first) ==
    LET one == create_image(imgs, a, first) IN
    IF n = 1 THEN one ELSE create_image(one, a, FALSE)

ImageResult(op, a, err) ==
    /\ resp' = Response(op, a, err, 0)
    /\ UNCHANGED images

\* POST /auction-images/upload/{auction_id}
upload_image(u, a, is_main) ==
    /\ IF a \notin DOMAIN auctions THEN ImageResult("imageUpload", a, "NotFound")
       ELSE IF subresource_gate(u, a) # "pass"
       THEN ImageResult("imageUpload", a, subresource_gate(u, a))
       ELSE IF create_image_guard(a) # "pass"
       THEN ImageResult("imageUpload", a, create_image_guard(a))
       ELSE /\ images' = create_image(images, a, is_main)
            /\ resp' = Response("imageUpload", a, "ok", 0)
    /\ UNCHANGED <<auctions, specifications, bids, deposits, lastAuctionId, now, req, users, details, accounts>>

\* POST /auction-images/upload-multiple/{auction_id} and
\* POST /auction-images/frontend-simple/{auction_id}: n files, the first one
\* main when the auction has no image yet
upload_multiple_images(u, a, n) ==
    /\ IF a \notin DOMAIN auctions THEN ImageResult("imageUploadMultiple", a, "NotFound")
       ELSE IF auctions[a].creator_id # u /\ ~is_admin_user(u)
       THEN ImageResult("imageUploadMultiple", a, "Forbidden")
       ELSE IF create_image_guard(a) # "pass"
       THEN ImageResult("imageUploadMultiple", a, create_image_guard(a))
       ELSE /\ images' = create_images(images, a, n, ImagesOf(images, a) = {})
            /\ resp' = Response("imageUploadMultiple", a, "ok", 0)
    /\ UNCHANGED <<auctions, specifications, bids, deposits, lastAuctionId, now, req, users, details, accounts>>

\* POST /auction-images/frontend-upload/{auction_id}: when is_main is set the
\* handler clears the main images of the auction and commits, and only then
\* calls crud.create_image for the first file
upload_images_from_frontend(u, a, n, is_main) ==
    /\ IF a \notin DOMAIN auctions THEN ImageResult("imageUploadFrontend", a, "NotFound")
       ELSE IF auctions[a].creator_id # u /\ ~is_admin_user(u)
       THEN ImageResult("imageUploadFrontend", a, "Forbidden")
       ELSE LET committed == IF is_main THEN update_main_image(images, a) ELSE images IN
            IF create_image_guard(a) # "pass"
            THEN /\ images' = committed
                 /\ resp' = Response("imageUploadFrontend", a, create_image_guard(a), 0)
            ELSE /\ images' = create_images(committed, a, n, is_main)
                 /\ resp' = Response("imageUploadFrontend", a, "ok", 0)
    /\ UNCHANGED <<auctions, specifications, bids, deposits, lastAuctionId, now, req, users, details, accounts>>

\* PUT /auction-images/{image_id} with crud.update_image; the image is named
\* by its position i, p is the AuctionImageUpdate body
update_image(u, i, p) ==
    /\ IF i \notin 1..Len(images) THEN ImageResult("imageUpdate", 0, "NotFound")
       ELSE LET a == images[i].auctionId IN
            IF subresource_gate(u, a) # "pass"
            THEN ImageResult("imageUpdate", a, subresource_gate(u, a))
            ELSE IF auctions[a].auctionStatus \notin editable_statuses
            THEN ImageResult("imageUpdate", a, "InvalidState")
            ELSE LET cleared == IF p.isMain.k = "value" /\ p.isMain.v = TRUE
                                   /\ images[i].isMain # TRUE
                                THEN update_main_image(images, a) ELSE images IN
                 /\ images' = [cleared EXCEPT ![i] =
                                  [f \in DOMAIN @ |->
                                      IF f \in DOMAIN p /\ p[f].k # "absent" THEN p[f].v ELSE @[f]]]
                 /\ resp' = Response("imageUpdate", a, "ok", 0)
    /\ UNCHANGED <<auctions, specifications, bids, deposits, lastAuctionId, now, req, users, details, accounts>>

\* DELETE /auction-images/{image_id} with crud.delete_image; nxt is the row
\* that the unordered query for another image of the auction returns first
delete_image(u, i, nxt) ==
    /\ IF i \notin 1..Len(images) THEN ImageResult("imageDelete", 0, "NotFound")
       ELSE LET a == images[i].auctionId IN
            IF subresource_gate(u, a) # "pass"
            THEN ImageResult("imageDelete", a, subresource_gate(u, a))
            ELSE IF auctions[a].auctionStatus \notin editable_statuses
            THEN ImageResult("imageDelete", a, "InvalidState")
            ELSE LET others == ImagesOf(images, a) \ {i}
                     promoted == IF images[i].isMain = TRUE /\ others # {}
                                 THEN [images EXCEPT ![nxt].isMain = TRUE] ELSE images IN
                 /\ (images[i].isMain = TRUE /\ others # {}) => nxt \in others
                 /\ images' = [j \in 1..(Len(images) - 1) |->
                                  IF j < i THEN promoted[j] ELSE promoted[j + 1]]
                 /\ resp' = Response("imageDelete", a, "ok", 0)
    /\ UNCHANGED <<auctions, specifications, bids, deposits, lastAuctionId, now, req, users, details, accounts>>

\* POST /auction-images/reorder/{auction_id} with crud.reorder_images, which
\* writes and sorts by AuctionImage.displayOrder
reorder_images(u, a, ids) ==
    /\ IF a \notin DOMAIN auctions THEN ImageResult("imageReorder", a, "NotFound")
       ELSE IF subresource_gate(u, a) # "pass"
       THEN ImageResult("imageReorder", a, subresource_gate(u, a))
       ELSE IF auctions[a].auctionStatus \notin editable_statuses
       THEN ImageResult("imageReorder", a, "InvalidState")
       ELSE IF Cardinality({i \in ImagesOf(images, a) : \E k \in 1..Len(ids) : ids[k] = i})
               # Len(ids)
       THEN ImageResult("imageReorder", a, "InvalidState")
       ELSE IF "displayOrder" \notin ImageColumns
       THEN ImageResult("imageReorder", a, "Internal")
       ELSE /\ images' = [i \in 1..Len(images) |->
                            IF \E k \in 1..Len(ids) : ids[k] = i
                            THEN [images[i] EXCEPT !.order =
                                     (CHOOSE k \in 1..Len(ids) : ids[k] = i) - 1]
                            ELSE images[i]]
            /\ resp' = Response("imageReorder", a, "ok", 0)
    /\ UNCHANGED <<auctions, specifications, bids, deposits, lastAuctionId, now, req, users, details, accounts>>

\* ------------------------------------------------------- delete auction
DepositsOf(a) == {i \in 1..Len(deposits) : deposits[i].auctionId = a}

\* utils.file_utils.cleanup_auction_files, called by the router once the
\* delete has been committed: shutil.rmtree is not guarded, so when it raises
\* (purge_ok false) the request ends with the generic internal error
cleanup_auction_files(purge_ok) == IF purge_ok THEN "ok" ELSE "Internal"

\* variant in which the deposits of the auction do not stop the delete
delete_auction_orphaning_deposits(u, a, purge_ok) ==
    /\ IF a \notin DOMAIN auctions
       THEN /\ resp' = Response("delete", a, "NotFound", 0)
            /\ UNCHANGED <<auctions, specifications, bids, images>>
       ELSE IF auctions[a].creator_id # u /\ ~is_admin_user(u)
       THEN /\ resp' = Response("delete", a, "Forbidden", 0)
            /\ UNCHANGED <<auctions, specifications, bids, images>>
       ELSE IF auctions[a].auctionStatus \notin {"draft", "cancelled"}
       THEN /\ resp' = Response("delete", a, "InvalidState", 0)
            /\ UNCHANGED <<auctions, specifications, bids, images>>
       ELSE /\ auctions' = [i \in DOMAIN auctions \ {a} |-> auctions[i]]
            /\ specifications' = SelectSeq(specifications, LAMBDA s : s.auctionId # a)
            /\ bids' = SelectSeq(bids, LAMBDA b : b.auctionId # a)
            /\ images' = SelectSeq(images, LAMBDA x : x.auctionId # a)
            /\ resp' = Response("delete", a, cleanup_auction_files(purge_ok), 0)
    /\ UNCHANGED <<deposits, lastAuctionId, now, req, users, details, accounts>>

delete_auction(u, a, purge_ok) ==
    /\ IF a \notin DOMAIN auctions
       THEN /\ resp' = Response("delete", a, "NotFound", 0)
            /\ UNCHANGED <<auctions, specifications, bids, images>>
       ELSE IF auctions[a].creator_id # u /\ ~is_admin_user(u)
       THEN /\ resp' = Response("delete", a, "Forbidden", 0)
            /\ UNCHANGED <<auctions, specifications, bids, images>>
       ELSE IF auctions[a].auctionStatus \notin {"draft", "cancelled"}
       THEN /\ resp' = Response("delete", a, "InvalidState", 0)
            /\ UNCHANGED <<auctions, specifications, bids, images>>
       ELSE IF DepositsOf(a) # {}
       THEN \* Auction.deposits has no delete cascade: the flush sets the NOT NULL
            \* column deposits.auctionId to NULL and the commit raises
            /\ resp' = Response("delete", a, "Internal", 0)
            /\ UNCHANGED <<auctions, specifications, bids, images>>
       ELSE /\ auctions' = [i \in DOMAIN auctions \ {a} |-> auctions[i]]
            /\ specifications' = SelectSeq(specifications, LAMBDA s : s.auctionId # a)
            /\ bids' = SelectSeq(bids, LAMBDA b : b.auctionId # a)
            /\ images' = SelectSeq(images, LAMBDA x : x.auctionId # a)
            /\ resp' = Response("delete", a, cleanup_auction_files(purge_ok), 0)
    /\ UNCHANGED <<deposits, lastAuctionId, now, req, users, details, accounts>>

\* -------------------------------------------------------------- bids
BidsOf(bs, a) == SelectSeq(bs, LAMBDA b : b.auctionId = a)

get_highest_bid_earliest(bs, a) ==
    {i \in 1..Len(bs) : /\ bs[i].auctionId = a
                        /\ \A j \in 1..Len(bs) : bs[j].auctionId = a => i <= j}

\* crud.bid.get_highest_bid: ORDER BY amount DESC, first row; the rows that can come first
get_highest_bid(bs, a) ==
    {i \in 1..Len(bs) : /\ bs[i].auctionId = a
                        /\ \A j \in 1..Len(bs) : bs[j].auctionId = a => bs[j].amount <= bs[i].amount}

\* crud.bid.get_auction_bids: ORDER BY amount DESC, timestamp DESC; the row
\* orders the query can return, as sequences of positions in bs
get_auction_bids(bs, a) ==
    LET rows == {i \in 1..Len(bs) : bs[i].auctionId = a}
        n == Cardinality(rows) IN
    {l \in [1..n -> rows] :
        /\ \A i, j \in 1..n : i # j => l[i] # l[j]
        /\ \A i, j \in 1..n :
              i < j => \/ bs[l[i]].amount > bs[l[j]].amount
                       \/ /\ bs[l[i]].amount = bs[l[j]].amount
                          /\ bs[l[i]].timestamp >= bs[l[j]].timestamp}

min_bid_first_plus_increment(bs, a, startingPrice, incrementAmount) ==
    IF get_highest_bid(bs, a) # {}
    THEN bs[CHOOSE i \in get_highest_bid(bs, a) : TRUE].amount + incrementAmount
    ELSE startingPrice + incrementAmount

\* the minimum the amount is compared with (lines 90-104 of crud/bid.py)
min_bid(bs, a, startingPrice, incrementAmount) ==
    IF get_highest_bid(bs, a) # {}
    THEN bs[CHOOSE i \in get_highest_bid(bs, a) : TRUE].amount + incrementAmount
    ELSE startingPrice

NewBid(u, a, amt) == [auctionId |-> a, bidderId |-> u, amount |-> amt, timestamp |-> now]

bid_guard_exclusive_end(a, amt) ==
    IF ~(amt > 0) THEN "ValidationError"
    ELSE IF a \notin DOMAIN auctions THEN "NotFound"
    ELSE IF auctions[a].auctionStatus # "active" THEN "InvalidState"
    ELSE IF now < auctions[a].startDate \/ now >= auctions[a].endDate THEN "OutOfWindow"
    ELSE "pass"

\* lines 66-87 of crud/bid.py, after the BidCreate schema (amount > 0)
bid_guard(a, amt) ==
    IF ~(amt > 0) THEN "ValidationError"
    ELSE IF a \notin DOMAIN auctions THEN "NotFound"
    ELSE IF auctions[a].auctionStatus # "active" THEN "InvalidState"
    ELSE IF now < auctions[a].startDate \/ now > auctions[a].endDate THEN "OutOfWindow"
    ELSE "pass"

create_bid_replacing(u, a, amt) ==
    /\ IF bid_guard(a, amt) # "pass"
       THEN /\ resp' = Response("placeBid", a, bid_guard(a, amt), 0)
            /\ UNCHANGED bids
       ELSE LET m == min_bid(bids, a, auctions[a].startingPrice, auctions[a].incrementAmount) IN
            IF amt < m
            THEN /\ resp' = Response("placeBid", a, "BidTooLow", m)
                 /\ UNCHANGED bids
            ELSE /\ Len(bids) < MaxBids
                 /\ bids' = Append(SelectSeq(bids, LAMBDA b : ~(b.auctionId = a /\ b.bidderId = u)),
                                 NewBid(u, a, amt))
                 /\ resp' = Response("placeBid", a, "ok", 0)
    /\ UNCHANGED <<auctions, specifications, deposits, lastAuctionId, now, req, users, details, images, accounts>>

create_bid(u, a, amt) ==
    /\ IF bid_guard(a, amt) # "pass"
       THEN /\ resp' = Response("placeBid", a, bid_guard(a, amt), 0)
            /\ UNCHANGED bids
       ELSE LET m == min_bid(bids, a, auctions[a].startingPrice, auctions[a].incrementAmount) IN
            IF amt < m
            THEN /\ resp' = Response("placeBid", a, "BidTooLow", m)
                 /\ UNCHANGED bids
            ELSE /\ Len(bids) < MaxBids
                 /\ bids' = Append(bids, NewBid(u, a, amt))
                 /\ resp' = Response("placeBid", a, "ok", 0)
    /\ UNCHANGED <<auctions, specifications, deposits, lastAuctionId, now, req, users, details, images, accounts>>

\* the same handler as the three database round trips of one request: the
\* auction query (line 67), the highest-bid query (line 90), the commit (line 115)
BidLoad(p, u, a, amt) ==
    /\ req[p].pc = "idle"
    /\ IF bid_guard(a, amt) # "pass"
       THEN /\ resp' = Response("placeBid", a, bid_guard(a, amt), 0)
            /\ UNCHANGED req
       ELSE /\ req' = [req EXCEPT ![p] = [pc |-> "loaded", user |-> u, auctionId |-> a,
                                          amount |-> amt,
                                          startingPrice |-> auctions[a].startingPrice,
                                          incrementAmount |-> auctions[a].incrementAmount]]
            /\ UNCHANGED resp
    /\ UNCHANGED <<auctions, specifications, bids, deposits, lastAuctionId, now, users, details, images, accounts>>

BidCheck(p) ==
    /\ req[p].pc = "loaded"
    /\ LET m == min_bid(bids, req[p].auctionId, req[p].startingPrice, req[p].incrementAmount) IN
       IF req[p].amount < m
       THEN /\ resp' = Response("placeBid", req[p].auctionId, "BidTooLow", m)
            /\ req' = [req EXCEPT ![p] = Idle]
       ELSE /\ req' = [req EXCEPT ![p].pc = "checked"]
            /\ UNCHANGED resp
    /\ UNCHANGED <<auctions, specifications, bids, deposits, lastAuctionId, now, users, details, images, accounts>>

\* commit_ok false: db.commit() raises for a reason outside the request
\* (connection lost, deadlock victim); nothing in create_bid catches it
BidCommit(p, commit_ok) ==
    /\ req[p].pc = "checked"
    /\ IF req[p].auctionId \notin DOMAIN auctions \/ ~commit_ok
       THEN \* foreign key bids.auctionId, or the failed commit
            /\ resp' = Response("placeBid", req[p].auctionId, "Internal", 0)
            /\ UNCHANGED bids
       ELSE /\ Len(bids) < MaxBids
            /\ bids' = Append(bids, NewBid(req[p].user, req[p].auctionId, req[p].amount))
            /\ resp' = Response("placeBid", req[p].auctionId, "ok", 0)
    /\ req' = [req EXCEPT ![p] = Idle]
    /\ UNCHANGED <<auctions, specifications, deposits, lastAuctionId, now, users, details, images, accounts>>

\* ------------------------------------------------------------ deposits
DepositMethods == {"bank", "card", "wallet"}
DepositAmounts == {50}

create_deposit_once_per_user(u, a, amt, method) ==
    /\ IF a \notin DOMAIN auctions
       THEN /\ resp' = Response("submit", a, "NotFound", 0)
            /\ UNCHANGED deposits
       ELSE IF \E i \in 1..Len(deposits) : deposits[i].userId = u /\ deposits[i].auctionId = a
       THEN /\ resp' = Response("submit", a, "Conflict", 0)
            /\ UNCHANGED deposits
       ELSE /\ Len(deposits) < MaxDeposits
            /\ deposits' = Append(deposits,
                              [userId |-> u, auctionId |-> a, amount |-> amt,
                               depositMethod |-> method, status |-> "pending",
                               adminMessage |-> NULL, submittedAt |-> now,
                               reviewedAt |-> NullNum, reviewedBy |-> NULL])
            /\ resp' = Response("submit", a, "ok", 0)
    /\ UNCHANGED <<auctions, specifications, bids, lastAuctionId, now, req, users, details, images, accounts>>

\* routers.deposit.create_deposit with CRUDDeposit.create
create_deposit(u, a, amt, method) ==
    /\ IF a \notin DOMAIN auctions
       THEN /\ resp' = Response("submit", a, "NotFound", 0)
            /\ UNCHANGED deposits
       ELSE /\ Len(deposits) < MaxDeposits
            /\ deposits' = Append(deposits,
                              [userId |-> u, auctionId |-> a, amount |-> amt,
                               depositMethod |-> method, status |-> "pending",
                               adminMessage |-> NULL, submittedAt |-> now,
                               reviewedAt |-> NullNum, reviewedBy |-> NULL])
            /\ resp' = Response("submit", a, "ok", 0)
    /\ UNCHANGED <<auctions, specifications, bids, lastAuctionId, now, req, users, details, images, accounts>>

\* CRUDDeposit.update with all three fields of DepositUpdate set
CRUDDeposit_update(d, st, msg, reviewer) ==
    [deposits EXCEPT ![d].status = st, ![d].adminMessage = msg,
                     ![d].reviewedBy = reviewer, ![d].reviewedAt = now]

get_admin_user_any(u) == TRUE

\* utils.security.get_admin_user: the role test made on the authenticated user
get_admin_user(u) == UserRole(u) \in {"admin", "superadmin"}

\* attributes of a DepositStatus member, the object the name status is bound to
\* inside update_deposit_status (its form parameter hides fastapi.status)
DepositStatusAttributes == {"name", "value", "PENDING", "CONFIRMED", "REJECTED"}

\* raise HTTPException(status_code=status.<code>): the attribute lookup comes first
raise_status(code, err) == IF code \in DepositStatusAttributes THEN err ELSE "Internal"

\* routers.deposit.update_deposit_status, after the get_admin_user dependency
update_deposit_status(u, d, st, msg) ==
    /\ IF ~get_admin_user(u)
       THEN /\ resp' = Response("review", d, "Forbidden", 0)
            /\ UNCHANGED deposits
       ELSE IF st \notin DepositStatuses
       THEN /\ resp' = Response("review", d, "ValidationError", 0)
            /\ UNCHANGED deposits
       ELSE IF d \notin 1..Len(deposits)
       THEN /\ resp' = Response("review", d, raise_status("HTTP_404_NOT_FOUND", "NotFound"), 0)
            /\ UNCHANGED deposits
       ELSE IF st = "rejected" /\ msg \in {NULL, ""}
       THEN /\ resp' = Response("review", d,
                                raise_status("HTTP_400_BAD_REQUEST", "ValidationError"), 0)
            /\ UNCHANGED deposits
       ELSE IF "username" \notin UserColumns
       THEN \* current_user.username: the User model has no such attribute
            /\ resp' = Response("review", d, "Internal", 0)
            /\ UNCHANGED deposits
       ELSE /\ deposits' = CRUDDeposit_update(d, st, msg, u)
            /\ resp' = Response("review", d, "ok", 0)
    /\ UNCHANGED <<auctions, specifications, bids, lastAuctionId, now, req, users, details, images, accounts>>

\* ------------------------------------------------------------- clock
Tick_closing_expired ==
    /\ now < MaxTime
    /\ now' = now + 1
    /\ auctions' = [a \in DOMAIN auctions |->
                      IF auctions[a].auctionStatus = "active" /\ now + 1 > auctions[a].endDate
                      THEN [auctions[a] EXCEPT !.auctionStatus = "closed"]
                      ELSE auctions[a]]
    /\ UNCHANGED <<specifications, bids, deposits, lastAuctionId, resp, req, users, details, images, accounts>>

\* the clock read by datetime.now(); no job or startup hook writes to the database
Tick ==
    /\ now < MaxTime
    /\ now' = now + 1
    /\ UNCHANGED <<auctions, specifications, bids, deposits, lastAuctionId, resp, req, users, details, images, accounts>>

\* ------------------------------------------------- auction with details
\* crud.auction.get_highest_bid: SELECT max(amount), NULL when there is no bid
auction_get_highest_bid(bs, a) ==
    IF BidsOf(bs, a) = <<>> THEN NullNum
    ELSE CHOOSE m \in {b.amount : b \in {bs[i] : i \in 1..Len(bs)}} :
            /\ \E i \in 1..Len(bs) : bs[i].auctionId = a /\ bs[i].amount = m
            /\ \A i \in 1..Len(bs) : bs[i].auctionId = a => bs[i].amount <= m

\* the count() query of get_auction_with_details
total_bids(bs, a) == Len(BidsOf(bs, a))

\* get_auction_with_details as its three statements, each a round trip of
\* its own to the database: the auction query, max(amount), count()
DetailsLoad(a) ==
    /\ details.pc = "idle"
    /\ IF a \notin DOMAIN auctions
       THEN /\ resp' = Response("withDetails", a, "NotFound", 0)
            /\ UNCHANGED details
       ELSE /\ details' = [pc |-> "loaded", auctionId |-> a, highestBid |-> NullNum,
                           totalBids |-> 0]
            /\ UNCHANGED resp
    /\ UNCHANGED <<db, now, req, users, accounts>>

DetailsHighest ==
    /\ details.pc = "loaded"
    /\ details' = [details EXCEPT !.pc = "highest",
                                  !.highestBid = auction_get_highest_bid(bids, details.auctionId)]
    /\ UNCHANGED <<db, now, resp, req, users, accounts>>

DetailsCount ==
    /\ details.pc = "highest"
    /\ details' = [details EXCEPT !.pc = "done",
                                  !.totalBids = total_bids(bids, details.auctionId)]
    /\ resp' = Response("withDetails", details.auctionId, "ok", 0)
    /\ UNCHANGED <<db, now, req, users, accounts>>

\* the response has been sent; the next call starts from scratch
DetailsReturn ==
    /\ details.pc = "done"
    /\ details' = NoDetails
    /\ UNCHANGED <<db, now, resp, req, users, accounts>>

\* ------------------------------------------------------ authentication
\* what the Authorization header of a request carries for the user it names
Tokens == {"absent", "invalid", "expired", "valid"}

\* an account after register: inactive until the emailed token is used
Registered == [is_active |-> FALSE, is_verified |-> FALSE, is_blocked |-> FALSE,
               verification_token |-> TRUE]

\* auth_bearer.JWTBearer, the route dependency of the auction and bid
\* endpoints; the outcomes are a set because the status HTTPBearer gives a
\* request without header is 403 or 401 depending on the FastAPI release
JWTBearer(tok) ==
    IF tok = "absent" THEN {"Forbidden", "Unauthenticated"}
    ELSE IF tok \in {"invalid", "expired"} THEN {"Forbidden"}
    ELSE {"pass"}

\* auth_handler.get_current_user_from_token
get_current_user_from_token(tok, u) ==
    IF tok = "absent" THEN "Unauthenticated"
    ELSE IF tok \in {"invalid", "expired"} THEN "Forbidden"
    ELSE IF ~users[u].is_active THEN "Unauthenticated"
    ELSE "pass"

\* the two dependencies of an auction or bid endpoint, in the order they run
AuctionGate(tok, u) ==
    IF "pass" \notin JWTBearer(tok) THEN JWTBearer(tok)
    ELSE {get_current_user_from_token(tok, u)}

\* utils.security.get_current_user, the dependency of the deposit endpoints
get_current_user(tok, u) ==
    IF tok # "valid" THEN "Unauthenticated"
    ELSE IF ~users[u].is_active THEN "Forbidden"
    ELSE "pass"

\* get_admin_user on top of get_current_user
AdminGate(tok, u) ==
    IF get_current_user(tok, u) # "pass" THEN get_current_user(tok, u)
    ELSE IF ~get_admin_user(u) THEN "Forbidden"
    ELSE "pass"

Refuse(op, e) ==
    /\ resp' = Response(op, 0, e, 0)
    /\ UNCHANGED <<db, now, req, users, details, accounts>>

AuthCreateAuction(tok, u, sp, inc, sd, ed) ==
    \E e \in AuctionGate(tok, u) :
        IF e # "pass" THEN Refuse("create", e)
        ELSE create_auction(u, NULL, sp, inc, sd, ed, "draft")

AuthPlaceBid(tok, u, a, amt) ==
    \E e \in AuctionGate(tok, u) :
        IF e # "pass" THEN Refuse("placeBid", e)
        ELSE create_bid(u, a, amt)

AuthSubmitDeposit(tok, u, a, amt, m) ==
    IF get_current_user(tok, u) # "pass" THEN Refuse("submit", get_current_user(tok, u))
    ELSE create_deposit(u, a, amt, m)

\* the checks of routers.auth.login_json before it issues a token
login_outcome(u, password_ok) ==
    IF ~password_ok THEN "Unauthenticated"
    ELSE IF ~users[u].is_active THEN "Forbidden"
    ELSE "ok"

\* routers.auth.login_json
login_json(u, password_ok) ==
    /\ resp' = Response("login", 0, login_outcome(u, password_ok), 0)
    /\ UNCHANGED <<db, now, req, users, details, accounts>>

\* ---------------------------------------------------------- moderation
UserStatuses == {"active", "pending", "banned"}

\* crud.user.update_user_state behind PUT /users/{id}/state
update_user_state(tok, u, t) ==
    /\ IF AdminGate(tok, u) # "pass"
       THEN /\ resp' = Response("state", 0, AdminGate(tok, u), 0)
            /\ UNCHANGED users
       ELSE /\ users' = [users EXCEPT ![t].is_blocked = ~users[t].is_blocked,
                                      ![t].is_active = users[t].is_blocked]
            /\ resp' = Response("state", 0, "ok", 0)
    /\ UNCHANGED <<db, now, req, details, accounts>>

\* the status part of crud.user.update_user_arabic behind PUT /users/{id}/update
update_user_arabic(tok, u, t, st) ==
    /\ IF AdminGate(tok, u) # "pass"
       THEN /\ resp' = Response("userUpdate", 0, AdminGate(tok, u), 0)
            /\ UNCHANGED users
       ELSE /\ users' = [users EXCEPT ![t] =
                            IF st = "active"
                            THEN [@ EXCEPT !.is_active = TRUE, !.is_verified = TRUE,
                                           !.is_blocked = FALSE]
                            ELSE IF st = "pending"
                            THEN [@ EXCEPT !.is_active = FALSE, !.is_blocked = TRUE]
                            ELSE [@ EXCEPT !.is_blocked = TRUE]]
            /\ resp' = Response("userUpdate", 0, "ok", 0)
    /\ UNCHANGED <<db, now, req, details, accounts>>

\* crud.user.verify_user behind GET /auth/verify, called with the token of t
verify_user(t) ==
    /\ IF ~users[t].verification_token
       THEN /\ resp' = Response("verify", 0, "NotFound", 0)
            /\ UNCHANGED users
       ELSE /\ users' = [users EXCEPT ![t].is_verified = TRUE, ![t].is_active = TRUE,
                                      ![t].verification_token = FALSE]
            /\ resp' = Response("verify", 0, "ok", 0)
    /\ UNCHANGED <<db, now, req, details, accounts>>

\* --------------------------------------------------------------- system
Init ==
    /\ auctions = <<>>
    /\ specifications = <<>>
    /\ images = <<>>
    /\ accounts = create_initial_admin_users(<< >>)
    /\ bids = <<>>
    /\ deposits = <<>>
    /\ lastAuctionId = 0
    /\ now = 0
    /\ resp = Response("none", 0, "ok", 0)
    /\ req = [p \in Procs |-> Idle]
    /\ users = [u \in Users |-> Verified]
    /\ details = NoDetails

CreateAuction ==
    \E u \in Creators, cid \in CreateCreatorIds, sp \in CreatePrices,
       inc \in CreateIncrements, d \in CreateDates, st \in CreateStatuses :
        create_auction(u, cid, sp, inc, d[1], d[2], st)

UpdateAuctionStatus ==
    \E u \in Users, a \in AuctionIds, t \in Statuses \cup {BadStatus} :
        update_auction_status(u, a, t)

UpdateAuction ==
    \/ \E u \in Users, a \in AuctionIds, p \in Payloads : update_auction(u, a, TRUE, p)
    \/ \E u \in Users, a \in AuctionIds : update_auction(u, a, FALSE, EmptyPayload)

DeleteAuction ==
    \E u \in Users, a \in AuctionIds, purge_ok \in BOOLEAN : delete_auction(u, a, purge_ok)

PlaceBid ==
    \E u \in Bidders, a \in AuctionIds, amt \in Amounts : create_bid(u, a, amt)

SubmitDeposit ==
    \E u \in Bidders, a \in AuctionIds, amt \in DepositAmounts, m \in DepositMethods :
        create_deposit(u, a, amt, m)

ReviewDeposit ==
    \E u \in Users, d \in 1..MaxDeposits, st \in DepositStatuses, msg \in Messages :
        update_deposit_status(u, d, st, msg)

\* auction lifecycle and bid acceptance, one request at a time
Next ==
    \/ CreateAuction
    \/ UpdateAuction
    \/ UpdateAuctionStatus
    \/ DeleteAuction
    \/ PlaceBid
    \/ Tick

Spec == Init /\ [][Next]_vars

\* deposit workflow next to the auction lifecycle, one request at a time
NextDeposit ==
    \/ CreateAuction
    \/ UpdateAuctionStatus
    \/ DeleteAuction
    \/ SubmitDeposit
    \/ ReviewDeposit
    \/ Tick

SpecDeposit == Init /\ [][NextDeposit]_vars

\* every write operation on auctions, bids and deposits, one request at a time
FramePayloads == {p \in Payloads : Present(p) = {"incrementAmount"}}

UpdateAuctionFrame ==
    \E u \in Users, a \in AuctionIds, p \in FramePayloads : update_auction(u, a, TRUE, p)

SubmitDepositBank ==
    \E u \in Bidders, a \in AuctionIds, amt \in DepositAmounts : create_deposit(u, a, amt, "bank")

CreateAuctionFixed ==
    \E u \in Creators : create_auction(u, NULL, 100, 10, 1, 2, "draft")

NextAll ==
    \/ CreateAuctionFixed
    \/ UpdateAuctionFrame
    \/ UpdateAuctionStatus
    \/ DeleteAuction
    \/ PlaceBid
    \/ SubmitDepositBank
    \/ ReviewDeposit
    \/ Tick

SpecAll == Init /\ [][NextAll]_vars

\* -------------------------------------------- interleaved bid requests
\* an auction that create, two status updates and a tick have produced
InitConc ==
    /\ auctions = (1 :> [creator_id |-> "u1", startingPrice |-> 100, reservePrice |-> NullNum,
                         incrementAmount |-> 10, startDate |-> 1, endDate |-> 2,
                         auctionType |-> "normal", auctionStatus |-> "active"])
    /\ specifications = <<>>
    /\ images = <<>>
    /\ accounts = create_initial_admin_users(<< >>)
    /\ bids = <<>>
    /\ deposits = <<>>
    /\ lastAuctionId = 1
    /\ now = 1
    /\ resp = Response("updateStatus", 1, "ok", 0)
    /\ req = [p \in Procs |-> Idle]
    /\ users = [u \in Users |-> Verified]
    /\ details = NoDetails

BidLoadStep == \E p \in Procs, u \in Bidders, a \in AuctionIds, amt \in Amounts : BidLoad(p, u, a, amt)

BidCheckStep == \E p \in Procs : BidCheck(p)

BidCommitStep == \E p \in Procs, commit_ok \in BOOLEAN : BidCommit(p, commit_ok)

NextConc ==
    \/ BidLoadStep
    \/ BidCheckStep
    \/ BidCommitStep
    \/ UpdateAuctionStatus
    \/ Tick

SpecConc == InitConc /\ [][NextConc]_vars

DetailsLoadStep == \E a \in AuctionIds : DetailsLoad(a)

NextDetails ==
    \/ PlaceBid
    \/ UpdateAuctionStatus
    \/ DeleteAuction
    \/ DetailsLoadStep
    \/ DetailsHighest
    \/ DetailsCount
    \/ DetailsReturn
    \/ Tick

SpecDetails == InitConc /\ [][NextDetails]_vars

ModerationTargets == {"u1", "u2"}

InitAuth ==
    /\ auctions = << >>
    /\ specifications = <<>>
    /\ images = <<>>
    /\ accounts = create_initial_admin_users(<< >>)
    /\ bids = <<>>
    /\ deposits = <<>>
    /\ lastAuctionId = 0
    /\ now = 1
    /\ resp = Response("none", 0, "ok", 0)
    /\ req = [p \in Procs |-> Idle]
    /\ users = [u \in Users |-> IF u = "u2" THEN Registered ELSE Verified]
    /\ details = NoDetails

CreateAuctionRequest ==
    \E tok \in Tokens, u \in Creators : AuthCreateAuction(tok, u, 100, 10, 1, 2)

PlaceBidRequest ==
    \E tok \in Tokens, u \in Bidders, a \in AuctionIds : AuthPlaceBid(tok, u, a, 100)

SubmitDepositRequest ==
    \E tok \in Tokens, u \in Bidders, a \in AuctionIds : AuthSubmitDeposit(tok, u, a, 50, "bank")

Login == \E u \in Users, password_ok \in BOOLEAN : login_json(u, password_ok)

ToggleUserState ==
    \E tok \in Tokens, u \in Users, t \in ModerationTargets : update_user_state(tok, u, t)

AdminUpdateUser ==
    \E tok \in Tokens, u \in Users, t \in ModerationTargets, st \in UserStatuses :
        update_user_arabic(tok, u, t, st)

VerifyAccount == \E t \in ModerationTargets : verify_user(t)

NextAuth ==
    \/ CreateAuctionRequest
    \/ PlaceBidRequest
    \/ SubmitDepositRequest
    \/ Login
    \/ ToggleUserState
    \/ AdminUpdateUser
    \/ VerifyAccount

SpecAuth == InitAuth /\ [][NextAuth]_vars

UpdateAuctionRich ==
    \E u \in Creators \cup Bidders, a \in AuctionIds, p \in RichPayloads :
        update_auction(u, a, TRUE, p)

NextUpdate ==
    \/ CreateAuctionFixed
    \/ UpdateAuctionRich
    \/ UpdateAuctionStatus

SpecUpdate == Init /\ [][NextUpdate]_vars

\* ------------------------------------------------ account requests
AccountResult(op, err) ==
    /\ resp' = Response(op, 0, err, 0)
    /\ UNCHANGED accounts

\* the startup event of the application
startup_event ==
    /\ accounts' = create_initial_admin_users(accounts)
    /\ resp' = Response("startup", 0, "ok", 0)
    /\ UNCHANGED <<db, now, req, users, details>>

\* POST /api/admin/init-db, which no dependency protects: with recreate_all
\* every table is dropped and created again
init_db(recreate_all) ==
    /\ IF recreate_all
       THEN /\ accounts' = << >>
            /\ auctions' = << >>
            /\ specifications' = <<>>
            /\ bids' = <<>>
            /\ deposits' = <<>>
            /\ images' = <<>>
            /\ lastAuctionId' = 0
       ELSE UNCHANGED <<db, accounts>>
    /\ resp' = Response("initDb", 0, "ok", 0)
    /\ UNCHANGED <<now, req, users, details>>

\* role strings of a registration body and str.lower on them
RegisterRoles == {"encherisseur", "Admin", "bogus"}

lower(r) == IF r = "Admin" THEN "admin" ELSE r

\* POST /auth/register with crud.create_user_new: the role of the body is
\* stored when it names a member of UserRole, encherisseur otherwise
register_user(email, role, password) ==
    /\ IF email \in DOMAIN accounts THEN AccountResult("register", "InvalidState")
       ELSE /\ accounts' = create_user(accounts, email,
                                       IF lower(role) \in UserRoles THEN lower(role)
                                       ELSE "encherisseur",
                                       password, TRUE, FALSE, FALSE)
            /\ resp' = Response("register", 0, "ok", 0)
    /\ UNCHANGED <<db, now, req, users, details>>

\* POST /auth/resend-verification: a row without a token gets one, and with
\* the setting ENABLE_EMAIL_NOTIFICATIONS the token of the row is mailed to
\* the address of the account
resend_verification(email, ENABLE_EMAIL_NOTIFICATIONS) ==
    /\ IF email \notin DOMAIN accounts THEN AccountResult("resend", "NotFound")
       ELSE IF accounts[email].is_verified THEN AccountResult("resend", "InvalidState")
       ELSE /\ accounts' = [accounts EXCEPT ![email].verification_token =
                                IF ENABLE_EMAIL_NOTIFICATIONS THEN "mailed"
                                ELSE IF @ = "none" THEN "secret" ELSE @]
            /\ resp' = Response("resend", 0, "ok", 0)
    /\ UNCHANGED <<db, now, req, users, details>>

\* GET /auth/verify by the holder of the address email, who presents the
\* token mailed to it, if any; crud.verify_user finds the row by the token
verify_account(email) ==
    /\ IF email \notin DOMAIN accounts \/ accounts[email].verification_token # "mailed"
       THEN AccountResult("verify", "NotFound")
       ELSE /\ accounts' = [accounts EXCEPT ![email].is_verified = TRUE,
                                            ![email].is_active = TRUE,
                                            ![email].verification_token = "none"]
            /\ resp' = Response("verify", 0, "ok", 0)
    /\ UNCHANGED <<db, now, req, users, details>>

\* POST /auth/login-json
login_account(email, password) ==
    /\ IF email \notin DOMAIN accounts \/ accounts[email].hashed_password # password
       THEN AccountResult("login", "Unauthenticated")
       ELSE IF ~accounts[email].is_active THEN AccountResult("login", "Forbidden")
       ELSE AccountResult("login", "ok")
    /\ UNCHANGED <<db, now, req, users, details>>

\* get_admin_user for the holder of a valid token of the account actor
account_admin_gate(actor) ==
    IF actor \notin DOMAIN accounts THEN "Unauthenticated"
    ELSE IF ~accounts[actor].is_active THEN "Forbidden"
    ELSE IF accounts[actor].role \notin {"admin", "superadmin"} THEN "Forbidden"
    ELSE "pass"

\* PUT /users/{user_id}/update with crud.update_user_arabic: password, status
\* and role of the body
update_user_endpoint(actor, target, body) ==
    /\ IF account_admin_gate(actor) # "pass"
       THEN AccountResult("userUpdate", account_admin_gate(actor))
       ELSE IF target \notin DOMAIN accounts THEN AccountResult("userUpdate", "NotFound")
       ELSE LET r0 == accounts[target]
                r1 == IF body.password.k = "value"
                      THEN [r0 EXCEPT !.hashed_password = body.password.v] ELSE r0
                r2 == IF body.status.k # "value" THEN r1
                      ELSE IF body.status.v = "active"
                      THEN [r1 EXCEPT !.is_active = TRUE, !.is_verified = TRUE,
                                      !.is_blocked = FALSE]
                      ELSE IF body.status.v = "pending"
                      THEN [r1 EXCEPT !.is_active = FALSE, !.is_blocked = TRUE]
                      ELSE IF body.status.v = "banned"
                      THEN [r1 EXCEPT !.is_blocked = TRUE]
                      ELSE r1
                r3 == IF body.role.k = "value" /\ body.role.v \in UserRoles
                      THEN [r2 EXCEPT !.role = body.role.v] ELSE r2 IN
            /\ accounts' = [accounts EXCEPT ![target] = r3]
            /\ resp' = Response("userUpdate", 0, "ok", 0)
    /\ UNCHANGED <<db, now, req, users, details>>

UserUpdateBodies ==
    {[password |-> Val("changed"), status |-> Absent(""), role |-> Absent("")],
     [password |-> Absent(""), status |-> Val("banned"), role |-> Absent("")],
     [password |-> Absent(""), status |-> Absent(""), role |-> Val("admin")]}

NextUsers ==
    \/ startup_event
    \/ \E recreate_all \in BOOLEAN : init_db(recreate_all)
    \/ \E email \in Emails, role \in RegisterRoles : register_user(email, role, "chosen")
    \/ \E email \in Emails, enabled \in BOOLEAN : resend_verification(email, enabled)
    \/ \E email \in Emails : verify_account(email)
    \/ \E email \in Emails, password \in {"configured", "chosen"} : login_account(email, password)
    \/ \E actor \in Emails, target \in Emails, body \in UserUpdateBodies :
          update_user_endpoint(actor, target, body)

SpecUsers == Init /\ [][NextUsers]_vars

\* ------------------------------------- interleaved update requests
\* an auction that create and one status update have produced
InitScheduled ==
    /\ auctions = (1 :> [creator_id |-> "u1", startingPrice |-> 100, reservePrice |-> NullNum,
                         incrementAmount |-> 10, startDate |-> 1, endDate |-> 2,
                         auctionType |-> "normal", auctionStatus |-> "scheduled"])
    /\ specifications = <<>>
    /\ images = <<>>
    /\ accounts = create_initial_admin_users(<< >>)
    /\ bids = <<>>
    /\ deposits = <<>>
    /\ lastAuctionId = 1
    /\ now = 0
    /\ resp = Response("updateStatus", 1, "ok", 0)
    /\ req = [p \in Procs |-> Idle]
    /\ users = [u \in Users |-> Verified]
    /\ details = NoDetails

ConcurrentPayloads ==
    {p \in Payloads : Present(p) \in {{"startingPrice"}, {"incrementAmount"}, {"endDate"}}}

NextUpdateConc ==
    \/ \E p \in Procs, u \in Users, a \in AuctionIds, pl \in ConcurrentPayloads :
          UpdateLoad(p, u, a, pl)
    \/ \E p \in Procs : UpdateCommit(p)
    \/ UpdateAuctionStatus
    \/ Tick

SpecUpdateConc == InitScheduled /\ [][NextUpdateConc]_vars

\* ------------------------------------------------------ image requests
MaxImages == 3
FileCounts == {1, 2}
ImageUpdates == [isMain : {Absent(FALSE), Val(TRUE), Val(FALSE)}, order : {Absent(0), Val(1)}]
ImageIdLists == {<<>>, <<1>>, <<2, 1>>}

NextImages ==
    \/ CreateAuctionFixed
    \/ UpdateAuctionStatus
    \/ DeleteAuction
    \/ \E u \in Users, a \in AuctionIds, is_main \in BOOLEAN :
          /\ Len(images) < MaxImages
          /\ upload_image(u, a, is_main)
    \/ \E u \in Users, a \in AuctionIds, n \in FileCounts :
          /\ Len(images) + n <= MaxImages
          /\ upload_multiple_images(u, a, n)
    \/ \E u \in Users, a \in AuctionIds, n \in FileCounts, is_main \in BOOLEAN :
          /\ Len(images) + n <= MaxImages
          /\ upload_images_from_frontend(u, a, n, is_main)
    \/ \E u \in Users, i \in 1..MaxImages, p \in ImageUpdates : update_image(u, i, p)
    \/ \E u \in Users, i \in 1..MaxImages, nxt \in 1..MaxImages :
          /\ nxt \in 1..Len(images)
          /\ delete_image(u, i, nxt)
    \/ \E u \in Users, a \in AuctionIds, ids \in ImageIdLists : reorder_images(u, a, ids)

SpecImages == Init /\ [][NextImages]_vars

\* specification lists and bodies of the specification endpoints
MaxSpecifications == 3
SpecificationProperties == {"color", "size"}
SpecificationValues == {"red", "blue"}
SpecificationLists ==
    {<<>>,
     <<[property |-> "color", value |-> "red"]>>,
     <<[property |-> "color", value |-> "red"], [property |-> "size", value |-> "blue"]>>,
     <<[property |-> "color", value |-> "red"], [property |-> "color", value |-> "blue"]>>}

SpecificationUpdates ==
    [property : {Absent(""), Val("color"), Val("size")}, value : {Absent(""), Val("blue")}]

UpdateAuctionSpecifications ==
    \E u \in Users, a \in AuctionIds, l \in SpecificationLists :
        update_auction(u, a, TRUE, [EmptyPayload EXCEPT !.specifications = Val(l)])

CreateSpecification ==
    \E u \in Users, a \in AuctionIds, prop \in SpecificationProperties,
       val \in SpecificationValues :
        /\ Len(specifications) < MaxSpecifications
        /\ create_specification(u, a, prop, val)

CreateBulkSpecifications ==
    \E u \in Users, a \in AuctionIds, l \in SpecificationLists :
        /\ Len(specifications) + Len(l) <= MaxSpecifications
        /\ create_bulk_specifications(u, a, l)

UpdateSpecification ==
    \E u \in Users, i \in 1..MaxSpecifications, p \in SpecificationUpdates :
        update_specification(u, i, p)

DeleteSpecification ==
    \E u \in Users, i \in 1..MaxSpecifications : delete_specification(u, i)

NextSpecifications ==
    \/ CreateAuctionFixed
    \/ UpdateAuctionStatus
    \/ UpdateAuctionSpecifications
    \/ CreateSpecification
    \/ CreateBulkSpecifications
    \/ UpdateSpecification
    \/ DeleteSpecification

SpecSpecifications == Init /\ [][NextSpecifications]_vars

\* ===================================================================
\* Properties
\* ===================================================================
IsOwnerOrAdmin(u, a) == auctions[a].creator_id = u \/ UserRole(u) \in {"admin", "superadmin"}

AmountsOf(a) == [i \in 1..Len(BidsOf(bids, a)) |-> BidsOf(bids, a)[i].amount]

\* C1: in acceptance order the first bid of an auction is at least its
\* startingPrice and every later bid is at least the previous one plus its
\* incrementAmount.
C1_BidMonotonicity ==
    \A a \in DOMAIN auctions :
        /\ Len(AmountsOf(a)) > 0 => AmountsOf(a)[1] >= auctions[a].startingPrice
        /\ \A i \in 2..Len(AmountsOf(a)) :
              AmountsOf(a)[i] >= AmountsOf(a)[i - 1] + auctions[a].incrementAmount

C1_Witness ==
    /\ resp.op = "placeBid" /\ resp.err = "ok"
    /\ \E a \in DOMAIN auctions : Len(AmountsOf(a)) >= 2

\* C2: concurrent placeBid requests on one auction behave as if read-highest,
\* validate and insert were one atomic step: any two bids of an auction, in
\* commit order, differ by at least the increment.
C2_SerializedBids ==
    \A i, j \in 1..Len(bids) :
        (i < j /\ bids[i].auctionId = bids[j].auctionId /\ bids[i].auctionId \in DOMAIN auctions)
            => bids[j].amount >= bids[i].amount + auctions[bids[i].auctionId].incrementAmount

\* C3: updateStatus by the creator or an admin succeeds and stores the target
\* exactly for the seven pairs of the transition table; for every other pair,
\* the target equal to the current status included, it fails with
\* InvalidTransition and the stored auction is unchanged.
TransitionTable ==
    {<<"draft", "scheduled">>, <<"draft", "cancelled">>, <<"scheduled", "active">>,
     <<"scheduled", "cancelled">>, <<"active", "closed">>, <<"active", "cancelled">>,
     <<"closed", "sold">>}

C3_StatusTransitionClosure ==
    [][\A u \in Users, a \in AuctionIds, t \in Statuses :
          (/\ resp'.op = "updateStatus"
           /\ a \in DOMAIN auctions
           /\ IsOwnerOrAdmin(u, a)
           /\ update_auction_status(u, a, t))
          => IF <<auctions[a].auctionStatus, t>> \in TransitionTable
             THEN /\ resp'.err = "ok"
                  /\ auctions'[a].auctionStatus = t
             ELSE /\ resp'.err = "InvalidTransition"
                  /\ auctions' = auctions]_vars

C3_Witness ==
    /\ resp.op = "updateStatus" /\ resp.err = "InvalidTransition"
    /\ resp.auction \in DOMAIN auctions
    /\ auctions[resp.auction].auctionStatus = "sold"

\* C4: update by the creator or an admin with a well-formed payload fails with
\* InvalidState whenever the status is active, closed, cancelled or sold, and
\* the core fields of such an auction do not change.
CoreFields(r) == <<r.startingPrice, r.reservePrice, r.incrementAmount, r.startDate,
                   r.endDate, r.auctionType>>

C4_UpdateInvalidState ==
    [][\A u \in Users, a \in AuctionIds, p \in Payloads :
          (/\ resp'.op = "update"
           /\ a \in DOMAIN auctions
           /\ IsOwnerOrAdmin(u, a)
           /\ RouterDatesValid(p) /\ AuctionUpdateValid(p)
           /\ auctions[a].auctionStatus \in {"active", "closed", "cancelled", "sold"}
           /\ update_auction(u, a, TRUE, p))
          => /\ resp'.err = "InvalidState"
             /\ a \in DOMAIN auctions'
             /\ CoreFields(auctions'[a]) = CoreFields(auctions[a])]_vars

\* C5: delete by the creator or an admin succeeds exactly when the status is
\* draft or cancelled, removing the auction with the children kept in this
\* state (specifications and bids); otherwise it fails with InvalidState and
\* removes nothing.
C5_DeleteGuardAndCascade ==
    [][\A u \in Users, a \in AuctionIds :
          (/\ resp'.op = "delete"
           /\ a \in DOMAIN auctions
           /\ IsOwnerOrAdmin(u, a)
           /\ \E purge_ok \in BOOLEAN : delete_auction(u, a, purge_ok))
          => IF auctions[a].auctionStatus \in {"draft", "cancelled"}
             THEN /\ resp'.err = "ok"
                  /\ a \notin DOMAIN auctions'
                  /\ \A i \in 1..Len(specifications') : specifications'[i].auctionId # a
                  /\ \A i \in 1..Len(bids') : bids'[i].auctionId # a
             ELSE /\ resp'.err = "InvalidState"
                  /\ <<auctions, specifications, bids>>' = <<auctions, specifications, bids>>]_vars

\* C6: a user who is neither the creator nor an admin gets Forbidden from
\* update, updateStatus and delete on an existing auction, whatever the
\* payload, and nothing stored changes.
C6_OwnershipGate ==
    [][\A u \in Users, a \in AuctionIds :
          (a \in DOMAIN auctions /\ ~IsOwnerOrAdmin(u, a))
          => /\ \A t \in Statuses \cup {BadStatus} :
                   (resp'.op = "updateStatus" /\ update_auction_status(u, a, t))
                   => (resp'.err = "Forbidden" /\ db' = db)
             /\ \A wf \in BOOLEAN, p \in Payloads :
                   (resp'.op = "update" /\ update_auction(u, a, wf, p))
                   => (resp'.err = "Forbidden" /\ db' = db)
             /\ (resp'.op = "delete" /\ \E purge_ok \in BOOLEAN : delete_auction(u, a, purge_ok))
                   => (resp'.err = "Forbidden" /\ db' = db)]_vars

\* C7: placeBid with a positive amount answers NotFound for a missing auction,
\* otherwise InvalidState unless the status is active, otherwise OutOfWindow
\* unless startDate <= now <= endDate, and only then compares the amount with
\* the minimum; no bid is recorded when one of the three fails.
C7_BidPreconditionOrder ==
    [][\A u \in Bidders, a \in AuctionIds, amt \in Amounts :
          (resp'.op = "placeBid" /\ amt > 0 /\ create_bid(u, a, amt))
          => IF a \notin DOMAIN auctions
             THEN resp'.err = "NotFound" /\ bids' = bids
             ELSE IF auctions[a].auctionStatus # "active"
             THEN resp'.err = "InvalidState" /\ bids' = bids
             ELSE IF ~(auctions[a].startDate <= now /\ now <= auctions[a].endDate)
             THEN resp'.err = "OutOfWindow" /\ bids' = bids
             ELSE resp'.err \in {"ok", "BidTooLow"}]_vars

C7_Witness ==
    /\ resp.op = "placeBid" /\ resp.err = "OutOfWindow"
    /\ resp.auction \in DOMAIN auctions
    /\ now > auctions[resp.auction].endDate
    /\ \E i \in 1..Len(bids) : /\ bids[i].auctionId = resp.auction
                               /\ bids[i].timestamp = auctions[resp.auction].endDate

\* C8: for an active auction inside its window a positive amount is accepted
\* if and only if it is at least the minimum (highest amount plus increment,
\* or startingPrice when there is no bid), and a rejected one fails with
\* BidTooLow carrying that minimum.
MaxAmount(a) ==
    CHOOSE m \in {bids[i].amount : i \in {j \in 1..Len(bids) : bids[j].auctionId = a}} :
        \A i \in 1..Len(bids) : bids[i].auctionId = a => bids[i].amount <= m

Minimum(a) ==
    IF \E i \in 1..Len(bids) : bids[i].auctionId = a
    THEN MaxAmount(a) + auctions[a].incrementAmount
    ELSE auctions[a].startingPrice

C8_BidAcceptance ==
    [][\A u \in Bidders, a \in AuctionIds, amt \in Amounts :
          (/\ resp'.op = "placeBid" /\ amt > 0
           /\ a \in DOMAIN auctions
           /\ auctions[a].auctionStatus = "active"
           /\ auctions[a].startDate <= now /\ now <= auctions[a].endDate
           /\ create_bid(u, a, amt))
          => IF amt >= Minimum(a)
             THEN /\ resp'.err = "ok"
                  /\ bids' = Append(bids, [auctionId |-> a, bidderId |-> u, amount |-> amt,
                                           timestamp |-> now])
             ELSE /\ resp'.err = "BidTooLow"
                  /\ resp'.min = Minimum(a)
                  /\ bids' = bids]_vars

\* startingPrice 100, increment 10: after 100 is accepted, 105 is refused with minimum 110
C8_Witness ==
    /\ resp.op = "placeBid" /\ resp.err = "BidTooLow" /\ resp.min = 110
    /\ resp.auction \in DOMAIN auctions
    /\ auctions[resp.auction].startingPrice = 100
    /\ auctions[resp.auction].incrementAmount = 10
    /\ AmountsOf(resp.auction) = <<100>>

\* C9: review(deposit, rejected, message) by an admin on an existing deposit
\* fails with ValidationError and changes nothing when the message is absent
\* or empty, and succeeds, storing rejected and the message, otherwise.
C9_RejectionRequiresMessage ==
    [][\A u \in Users, d \in 1..MaxDeposits, msg \in Messages :
          (/\ resp'.op = "review"
           /\ UserRole(u) \in {"admin", "superadmin"}
           /\ d \in 1..Len(deposits)
           /\ update_deposit_status(u, d, "rejected", msg))
          => IF msg \in {NULL, ""}
             THEN resp'.err = "ValidationError" /\ deposits' = deposits
             ELSE /\ resp'.err = "ok"
                  /\ deposits'[d].status = "rejected"
                  /\ deposits'[d].adminMessage = msg]_vars

\* C10: a review by an admin that passes validation (confirmed, or rejected
\* with a message) stores the status and sets reviewedAt to the time of the
\* review and reviewedBy to the reviewer.
C10_ReviewAudit ==
    [][\A u \in Users, d \in 1..MaxDeposits, st \in {"confirmed", "rejected"}, msg \in Messages :
          (/\ resp'.op = "review"
           /\ UserRole(u) \in {"admin", "superadmin"}
           /\ d \in 1..Len(deposits)
           /\ ~(st = "rejected" /\ msg \in {NULL, ""})
           /\ update_deposit_status(u, d, st, msg))
          => /\ deposits'[d].status = st
             /\ deposits'[d].reviewedAt = now
             /\ deposits'[d].reviewedBy = u]_vars

\* C11: the fields of an existing deposit change only in a step that is a
\* review by an admin or superadmin, no deposit is removed by any operation,
\* and a review by any other role fails with Forbidden and changes nothing.
C11_DepositFrame ==
    [][/\ Len(deposits') >= Len(deposits)
       /\ \A d \in 1..Len(deposits) :
             deposits'[d] # deposits[d]
             => \E u \in Users, st \in DepositStatuses, msg \in Messages :
                   /\ UserRole(u) \in {"admin", "superadmin"}
                   /\ resp'.op = "review"
                   /\ update_deposit_status(u, d, st, msg)
       /\ (resp'.op = "review" /\ resp'.err = "Forbidden") => deposits' = deposits
       /\ (resp'.op = "review" /\ resp'.err # "Forbidden")
             => \A u \in Users, st \in DepositStatuses, msg \in Messages :
                   UserRole(u) \notin {"admin", "superadmin"}
                   => ~update_deposit_status(u, resp'.auction, st, msg)]_vars

\* a bidder's review of an existing deposit was refused after a bid was placed
C11_Witness ==
    /\ resp.op = "review" /\ resp.err = "Forbidden"
    /\ Len(deposits) >= 1
    /\ Len(bids) >= 1

\* C12: an auction whose status is cancelled or sold keeps that status in
\* every later step, as long as the auction exists: neither updateStatus nor
\* update, by any actor, changes it.
C12_TerminalStatus ==
    [][\A a \in AuctionIds :
          (/\ a \in DOMAIN auctions
           /\ auctions[a].auctionStatus \in {"cancelled", "sold"}
           /\ a \in DOMAIN auctions')
          => auctions'[a].auctionStatus = auctions[a].auctionStatus]_vars

\* an update was attempted on a sold auction
C12_Witness ==
    /\ resp.op = "update"
    /\ resp.auction \in DOMAIN auctions
    /\ auctions[resp.auction].auctionStatus = "sold"

\* C13: every auction that create produces has status draft and the caller as
\* creator, whatever creator_id and auctionStatus the request body carries.
C13_CreateDraftByCaller ==
    [][\A u \in Creators, cid \in CreateCreatorIds, sp \in CreatePrices,
          inc \in CreateIncrements, d \in CreateDates, st \in CreateStatuses :
          (/\ resp'.op = "create" /\ resp'.err = "ok"
           /\ create_auction(u, cid, sp, inc, d[1], d[2], st))
          => /\ auctions'[resp'.auction].auctionStatus = "draft"
             /\ auctions'[resp'.auction].creator_id = u]_vars

\* C14: every persisted auction has endDate strictly after startDate, after
\* any create and any update.
C14_EndAfterStart ==
    \A a \in DOMAIN auctions : auctions[a].endDate > auctions[a].startDate

IsPrefix(s, t) == Len(s) <= Len(t) /\ \A i \in 1..Len(s) : t[i] = s[i]

C16_DetailsSnapshot ==
    details.pc = "done" => (details.highestBid = NullNum <=> details.totalBids = 0)

\* C17: on the auction, bid and deposit operations alike, a request whose
\* token is absent, invalid or expired fails with Unauthenticated, a request
\* of an inactive user fails with Forbidden, and neither changes any state.
C17_AuthGate ==
    [][\A tok \in Tokens, u \in Users :
          (\/ AuthCreateAuction(tok, u, 100, 10, 1, 2)
           \/ \E a \in AuctionIds : AuthPlaceBid(tok, u, a, 100)
           \/ \E a \in AuctionIds : AuthSubmitDeposit(tok, u, a, 50, "bank"))
          => /\ tok # "valid"
                => resp'.err = "Unauthenticated" /\ db' = db /\ users' = users
             /\ (tok = "valid" /\ ~users[u].is_active)
                => resp'.err = "Forbidden" /\ db' = db /\ users' = users]_vars

\* C18: whatever moderation operations were applied, a user whose is_blocked
\* flag is set is refused by the gate of every endpoint and at login.
C18_BlockedDenied ==
    \A u \in Users :
        users[u].is_blocked
        => /\ "pass" \notin AuctionGate("valid", u)
           /\ get_current_user("valid", u) # "pass"
           /\ login_outcome(u, TRUE) # "ok"

SpecificationsOf(ss, a) == SelectSeq(ss, LAMBDA x : x.auctionId = a)

C20_SpecificationsReplaced ==
    [][(resp'.op = "update" /\ resp'.err = "ok")
       => \A u \in Creators \cup Bidders, p \in RichPayloads :
             (update_auction(u, resp'.auction, TRUE, p) /\ p.specifications.k = "value")
             => LET new == SpecificationsOf(specifications', resp'.auction)
                    sent == p.specifications.v IN
                /\ Len(new) = Len(sent)
                /\ \A i \in 1..Len(sent) : /\ new[i].property = sent[i].property
                                           /\ new[i].value = sent[i].value]_vars

\* a two-item list replaced an earlier one-item list
C20_Witness ==
    /\ resp.op = "update" /\ resp.err = "ok"
    /\ Len(SpecificationsOf(specifications, resp.auction)) = 2

C22_ReviewFromAnyStatus ==
    [][\A u \in Users, d \in 1..MaxDeposits, st \in {"confirmed", "rejected"}, msg \in Messages :
          (/\ resp'.op = "review"
           /\ UserRole(u) \in {"admin", "superadmin"}
           /\ d \in 1..Len(deposits)
           /\ deposits[d].status \in DepositStatuses
           /\ ~(st = "rejected" /\ msg \in {NULL, ""})
           /\ update_deposit_status(u, d, st, msg))
          => /\ resp'.err = "ok"
             /\ deposits' = [deposits EXCEPT ![d].status = st, ![d].adminMessage = msg,
                                             ![d].reviewedAt = now, ![d].reviewedBy = u]]_vars

\* C23: the highest-bid lookup of an auction gives nothing when the auction
\* has no bid and otherwise a bid of maximum amount; among bids that share the
\* maximum amount it gives the one with the earliest timestamp, and the
\* highest-amount-first listing of the auction starts with that bid.
C23_HighestBidEarliest ==
    \A a \in DOMAIN auctions :
        LET top == {i \in 1..Len(bids) :
                      /\ bids[i].auctionId = a
                      /\ \A j \in 1..Len(bids) :
                            bids[j].auctionId = a => bids[j].amount <= bids[i].amount}
            earliest == {i \in top : \A j \in top : bids[i].timestamp <= bids[j].timestamp} IN
        /\ BidsOf(bids, a) = <<>> => get_highest_bid(bids, a) = {}
        /\ BidsOf(bids, a) # <<>>
           => /\ get_highest_bid(bids, a) # {}
              /\ get_highest_bid(bids, a) \subseteq earliest
              /\ \A l \in get_auction_bids(bids, a) : l[1] \in earliest

\* C24: the status of an auction changes only in a successful updateStatus or
\* update request, never with the passage of time, a bid, a deposit submit or
\* a deposit review; an auction still active after its endDate refuses every
\* bid of positive amount with OutOfWindow, and a scheduled auction whose
\* startDate has passed refuses every such bid with InvalidState.
C24_NoAutomaticTransition ==
    [][\A a \in DOMAIN auctions :
          /\ (a \in DOMAIN auctions' /\ auctions'[a].auctionStatus # auctions[a].auctionStatus)
             => /\ now' = now
                /\ resp'.op \in {"updateStatus", "update"}
                /\ resp'.err = "ok"
                /\ resp'.auction = a
          /\ (resp'.op = "placeBid" /\ resp'.auction = a)
             => \A u \in Bidders, amt \in Amounts :
                   (amt > 0 /\ create_bid(u, a, amt))
                   => /\ (auctions[a].auctionStatus = "active" /\ now > auctions[a].endDate)
                         => resp'.err = "OutOfWindow" /\ bids' = bids
                      /\ (auctions[a].auctionStatus = "scheduled" /\ now >= auctions[a].startDate)
                         => resp'.err = "InvalidState" /\ bids' = bids]_vars

\* a bid was refused on an auction that is still active after its endDate
\* and that has a deposit
C24_Witness ==
    /\ resp.op = "placeBid" /\ resp.err = "OutOfWindow"
    /\ auctions[resp.auction].auctionStatus = "active"
    /\ now > auctions[resp.auction].endDate
    /\ Len(deposits) >= 1

\* C25: the files of an auction are purged after the delete has been
\* committed, and a failing purge neither brings the auction back nor makes
\* the delete fail for the caller: every step that removes an auction is a
\* delete that reports success.
C25_PurgeBestEffort ==
    [][\A a \in DOMAIN auctions :
          a \notin DOMAIN auctions' => resp'.op = "delete" /\ resp'.err = "ok"]_vars

\* C26: when the commit of a bid fails for a transient persistence reason,
\* placeBid runs its read-validate-insert a second time before it reports a
\* failure: the first failed commit of a request does not end the request.
C26_RetryOnce ==
    [][\A p \in Procs :
          (req[p].pc = "checked" /\ req[p].auctionId \in DOMAIN auctions /\ BidCommit(p, FALSE))
          => req'[p].pc # "idle"]_vars

\* C27: no two specifications of one auction have the same name, after any
\* sequence of single creates, bulk creates, specification updates and
\* auction updates that carry a specifications list.
C27_UniqueSpecificationNames ==
    \A i, j \in 1..Len(specifications) :
        (i # j /\ specifications[i].auctionId = specifications[j].auctionId)
        => specifications[i].property # specifications[j].property

\* C28: the specification endpoints take the same owner-or-admin decision as
\* the auction endpoints: the creator and every admin or superadmin get the
\* normal result of the operation, every other caller is answered Forbidden.
C28_SameGateEverywhere ==
    [][\A u \in Users, i \in 1..Len(specifications) :
          (\/ resp'.op = "specDelete" /\ delete_specification(u, i)
           \/ /\ resp'.op = "specUpdate"
              /\ \E p \in SpecificationUpdates : update_specification(u, i, p))
          => LET a == specifications[i].auctionId IN
             IF IsOwnerOrAdmin(u, a)
             THEN resp'.err = IF auctions[a].auctionStatus \in editable_statuses
                              THEN "ok" ELSE "InvalidState"
             ELSE resp'.err = "Forbidden"]_vars

\* C29: whatever operation changes the auctionStatus of an existing auction,
\* the change is an edge of the transition table.
C29_StatusChangesFollowTable ==
    [][\A a \in DOMAIN auctions :
          (a \in DOMAIN auctions' /\ auctions'[a].auctionStatus # auctions[a].auctionStatus)
          => <<auctions[a].auctionStatus, auctions'[a].auctionStatus>> \in TransitionTable]_vars

\* C30: a bid is committed only while its auction is active: a placeBid that
\* runs alongside an updateStatus from active to closed or cancelled either
\* commits before the change or stores nothing.
C30_BidCommittedWhileActive ==
    [][Len(bids') > Len(bids)
       => LET a == bids'[Len(bids')].auctionId IN
          a \in DOMAIN auctions /\ auctions[a].auctionStatus = "active"]_vars

\* C31: an update that runs alongside an updateStatus never writes a price,
\* an increment or a date to an auction whose status has left draft and
\* scheduled: it commits before the status change or it changes nothing.
C31_UpdateOnlyWhileEditable ==
    [][\A a \in DOMAIN auctions :
          (a \in DOMAIN auctions' /\ CoreFields(auctions'[a]) # CoreFields(auctions[a]))
          => auctions[a].auctionStatus \in editable_statuses]_vars

\* C32: a placeBid, update, updateStatus, delete, deposit submit or deposit
\* review that is answered with NotFound, Forbidden, InvalidState,
\* InvalidTransition, OutOfWindow, BidTooLow or ValidationError leaves the
\* stored auctions, specifications, bids and deposits as they were.
RuleErrors == {"NotFound", "Forbidden", "InvalidState", "InvalidTransition", "OutOfWindow",
               "BidTooLow", "ValidationError"}

C32_ErrorsChangeNothing ==
    [][(/\ resp'.op \in {"placeBid", "update", "updateStatus", "delete", "submit", "review"}
        /\ resp'.err \in RuleErrors)
       => db' = db]_vars

\* a refused status change on an auction that has a bid and a deposit
C32_Witness ==
    /\ resp.op = "updateStatus" /\ resp.err = "InvalidTransition"
    /\ resp.auction \in DOMAIN auctions
    /\ Len(bids) >= 1
    /\ Len(deposits) >= 1

\* C33: once an auction has a bid, no update and no updateStatus changes its
\* startingPrice or its incrementAmount.
C33_PricesFixedAfterFirstBid ==
    [][\A a \in DOMAIN auctions :
          (a \in DOMAIN auctions' /\ BidsOf(bids, a) # <<>>)
          => /\ auctions'[a].startingPrice = auctions[a].startingPrice
             /\ auctions'[a].incrementAmount = auctions[a].incrementAmount]_vars

\* an update was refused on a cancelled auction that has a bid
C33_Witness ==
    /\ resp.op = "update" /\ resp.err = "Internal"
    /\ resp.auction \in DOMAIN auctions
    /\ auctions[resp.auction].auctionStatus = "cancelled"
    /\ BidsOf(bids, resp.auction) # <<>>

\* C34: in every reachable state a deposit whose status is rejected carries
\* a non-empty adminMessage.
C34_RejectedHasMessage ==
    \A d \in 1..Len(deposits) :
        deposits[d].status = "rejected" => deposits[d].adminMessage \notin {NULL, ""}

\* C35: while the status of an auction is outside draft and scheduled, no
\* image operation changes an image of the auction, its isMain flag
\* included: the operation fails and every image stays as it was.
C35_ChildrenFrozen ==
    [][\A a \in DOMAIN auctions :
          (a \in DOMAIN auctions' /\ auctions[a].auctionStatus \notin editable_statuses)
          => images' = images]_vars

\* C38: after every image operation at most one image of an auction is
\* marked main; an update that marks an image main leaves it the only main
\* image of its auction, and deleting the main image while others remain
\* leaves exactly one main image.
C38_AtMostOneMain ==
    [][/\ \A a \in AuctionIds : Cardinality(MainImagesOf(images', a)) <= 1
       /\ \A a \in AuctionIds, i \in 1..Len(images) :
             (/\ resp'.op = "imageUpdate" /\ resp'.err = "ok"
              /\ Len(images') = Len(images)
              /\ images[i].auctionId = a
              /\ images[i].isMain # TRUE /\ images'[i].isMain = TRUE)
             => MainImagesOf(images', a) = {i}
       /\ \A a \in AuctionIds :
             (/\ resp'.op = "imageDelete" /\ resp'.err = "ok"
              /\ Len(images') < Len(images)
              /\ MainImagesOf(images, a) # {}
              /\ ImagesOf(images', a) # {})
             => Cardinality(MainImagesOf(images', a)) = 1]_vars

\* an image was deleted and the two that remain have one main image
C38_Witness ==
    /\ resp.op = "imageDelete" /\ resp.err = "ok"
    /\ Len(images) = 2
    /\ Cardinality(MainImagesOf(images, resp.auction)) = 1

\* C36: every bid and every deposit belongs to an auction that exists, and a
\* delete either removes the auction with its specifications, bids and
\* images or leaves the stored data as it was.
C36_NoDanglingReference ==
    [][/\ \A i \in 1..Len(bids') : bids'[i].auctionId \in DOMAIN auctions'
       /\ \A i \in 1..Len(deposits') : deposits'[i].auctionId \in DOMAIN auctions'
       /\ \A a \in DOMAIN auctions :
             a \notin DOMAIN auctions'
             => /\ \A i \in 1..Len(specifications') : specifications'[i].auctionId # a
                /\ \A i \in 1..Len(images') : images'[i].auctionId # a
       /\ (resp'.op = "delete" /\ DOMAIN auctions' = DOMAIN auctions) => db' = db]_vars

\* the delete of a cancelled auction that has a bid and a deposit was refused
C36_Witness ==
    /\ resp.op = "delete" /\ resp.err = "Internal"
    /\ resp.auction \in DOMAIN auctions
    /\ auctions[resp.auction].auctionStatus = "cancelled"
    /\ DepositsOf(resp.auction) # {}
    /\ BidsOf(bids, resp.auction) # <<>>

\* C37: an account becomes an active admin or superadmin only in a step of
\* the startup provisioning or of an update made by an admin; register,
\* verify and login never produce one.
ActiveAdmin(accts, e) ==
    /\ e \in DOMAIN accts
    /\ accts[e].is_active
    /\ accts[e].role \in {"admin", "superadmin"}

C37_NoSelfMadeAdmin ==
    [][\A e \in Emails :
          (ActiveAdmin(accounts', e) /\ ~ActiveAdmin(accounts, e))
          => resp'.op \in {"startup", "userUpdate"}]_vars

\* C39: the startup provisioning changes no existing account, adds exactly
\* the configured accounts that are missing, and a second run right after
\* it changes nothing.
C39_ProvisioningIdempotent ==
    [][(resp'.op = "startup" /\ startup_event)
       => /\ \A e \in DOMAIN accounts : e \in DOMAIN accounts' /\ accounts'[e] = accounts[e]
          /\ DOMAIN accounts' = DOMAIN accounts \cup {SUPERADMIN_EMAIL, ADMIN_EMAIL}
          /\ ({SUPERADMIN_EMAIL, ADMIN_EMAIL} \subseteq DOMAIN accounts => accounts' = accounts)
          /\ create_initial_admin_users(accounts') = accounts']_vars

\* the provisioning ran on a table in which an admin had changed the
\* password and the status of the configured admin account
C39_Witness ==
    /\ resp.op = "startup"
    /\ {SUPERADMIN_EMAIL, ADMIN_EMAIL} \subseteq DOMAIN accounts
    /\ accounts[ADMIN_EMAIL].hashed_password = "changed"
    /\ accounts[ADMIN_EMAIL].is_blocked
====
